---- MODULE Spec2Model ----
(***************************************************************************)
(* State-machine models of the xv6 user programs primes.c (the concurrent  *)
(* prime sieve), pingpong.c and xargs.c.  Every system call of a program   *)
(* is one atomic step of the process that issues it.                       *)
(***************************************************************************)
EXTENDS Integers, Sequences, FiniteSets, TLC

(***************************************************************************)
(* Bounds of the model.                                                    *)
(***************************************************************************)
\* Largest upper end of the candidate range [2, N] that is explored.
MaxN == 10
\* Largest pipe capacity (in integers) that is explored.
MaxCap == 2

\* Process 0 is main (driver and feeder); process i >= 1 is the sieve()
\* layer at depth i.  Pipe j carries values from process j-1 to process j.
MaxProc == MaxN
Procs == 0..MaxProc
Stages == 1..MaxProc
Pipes == 1..MaxProc

VARIABLES
  N,        \* upper end of the candidate range written by feed_numbers
  cap,      \* capacity of every pipe, counted in integers
  pc,       \* pc[i]: the statement process i executes next
  pstate,   \* pstate[i]: "unused", "running", "zombie" (exited), "reaped"
  status,   \* status[i]: the argument of exit(), -1 while not exited
  ec,       \* ec[i]: the argument the pending exit() call will pass
  fi,       \* loop counter i of feed_numbers
  p,        \* p[i]: the first number read by layer i (0: none yet)
  x,        \* x[i]: the number last read by layer i, the value it forwards
  buf,      \* buf[j]: the integers buffered in pipe j
  rd,       \* rd[j]: the processes holding an open read end of pipe j
  wr,       \* wr[j]: the processes holding an open write end of pipe j
  made,     \* made[j]: pipe j has been created by pipe()
  out,      \* the values printed as "prime <value>", in print order
  errs,     \* the messages written to fd 2, as <<process, message>>
  fail,     \* the pipe()/fork() failure that happened: [kind, at]
  trace     \* history: trace[i] is the sequence of the system calls that
            \* process i has completed, as <<call, value or pipe>>

pvars == <<N, cap, pc, pstate, status, ec, fi, p, x, buf, rd, wr, made, out,
           errs, fail, trace>>

\* pingpong.c: the processes are "parent" and "child", the pipes "p2c", "c2p".
VARIABLES
  ppPc,     \* ppPc[w]: the statement process w executes next
  ppState,  \* ppState[w]: "unused", "running", "zombie", "reaped"
  ppStatus, \* ppStatus[w]: the argument of exit(), -1 while not exited
  ppEc,     \* ppEc[w]: the argument the pending exit() call will pass
  ppPid,    \* ppPid[w]: what getpid() returns in w (0: not created)
  byte,     \* byte[w]: the variable byte of w ("undef": not initialised)
  ppBuf,    \* ppBuf[c]: the bytes buffered in pipe c
  ppRd,     \* ppRd[c]: the processes holding an open read end of pipe c
  ppWr,     \* ppWr[c]: the processes holding an open write end of pipe c
  ppOut,    \* the lines printed, as <<pid, text>>, in print order
  ppErrs,   \* the messages written to fd 2
  ppLog     \* history: the successful pipe reads and writes, in order

ppvars == <<ppPc, ppState, ppStatus, ppEc, ppPid, byte, ppBuf, ppRd, ppWr,
            ppOut, ppErrs, ppLog>>

\* xargs.c: the process running main and the child it forks for a command.
VARIABLES
  xArgv,     \* argv of xargs
  xIn,       \* the characters of standard input not read yet
  xPc,       \* the statement main executes next
  per_token, \* the flag per_token
  fcnt,      \* the number of fixed arguments
  tok,       \* tok[0..tlen-1], the token being read
  words,     \* words[0..wcnt-1], the accumulated tokens
  xCall,     \* the argument vector built by run_with_token(s)
  xRet,      \* where main continues after run_with_token(s) returns
  xChild,    \* the forked child: "none", "forked", "execd", "zombie"
  xExecs,    \* history: the argument vectors passed to exec, in order
  xToks,     \* history: the tokens completed so far, in input order
  xErrs,     \* the messages written to fd 2
  xStatus,   \* the exit status of xargs, -1 while it runs
  xUB        \* an argument vector has been written past args[MAXARG-1]

xvars == <<xArgv, xIn, xPc, per_token, fcnt, tok, words, xCall, xRet, xChild,
           xExecs, xToks, xErrs, xStatus, xUB>>

vars == <<pvars, ppvars, xvars>>

(***************************************************************************)
(* Pipe semantics (xv6 pipe: blocking, ordered, bounded).                  *)
(***************************************************************************)
\* read() returns a value: the buffer is not empty.
CanRead(j) == buf[j] # <<>>
\* read() returns 0: the buffer is empty and no write end is open.
AtEOF(j) == buf[j] = <<>> /\ wr[j] = {}
\* write() returns -1: no read end is open.
WriteFails(j) == rd[j] = {}
\* write() completes: a read end is open and there is room.
CanWrite(j) == rd[j] # {} /\ Len(buf[j]) < cap

\* close() of process i's read / write end of pipe j.
CloseRead(i, j) == [rd EXCEPT ![j] = @ \ {i}]
CloseWrite(i, j) == [wr EXCEPT ![j] = @ \ {i}]

\* Mutant: no value is filtered out.
SurvivesAlways(v, q) == TRUE
\* The filter of a layer, x % p != 0 (lines 35 and 93).
Survives(v, q) == v % q # 0

NoFail == [kind |-> "none", at |-> 0]

PrimesInit ==
  /\ N \in 1..MaxN
  /\ cap \in 1..MaxCap
  /\ pc = [i \in Procs |-> IF i = 0 THEN "m_pipe" ELSE "none"]
  /\ pstate = [i \in Procs |-> IF i = 0 THEN "running" ELSE "unused"]
  /\ status = [i \in Procs |-> -1]
  /\ ec = [i \in Procs |-> 0]
  /\ fi = 2
  /\ p = [i \in Procs |-> 0]
  /\ x = [i \in Procs |-> 0]
  /\ buf = [j \in Pipes |-> <<>>]
  /\ rd = [j \in Pipes |-> {}]
  /\ wr = [j \in Pipes |-> {}]
  /\ made = [j \in Pipes |-> FALSE]
  /\ out = <<>>
  /\ errs = {}
  /\ fail = NoFail
  /\ trace = [i \in Procs |-> <<>>]

At(i, l) == pstate[i] = "running" /\ pc[i] = l
Goto(i, l) == pc' = [pc EXCEPT ![i] = l]
\* Process i has completed the system call e.
Log(i, e) == trace' = [trace EXCEPT ![i] = Append(@, e)]

\* The process leaves through exit(code): the call itself is the step Exit.
GotoExit(i, code) == /\ pc' = [pc EXCEPT ![i] = "exit"]
                     /\ ec' = [ec EXCEPT ![i] = code]

(***************************************************************************)
(* exit() and wait()                                                       *)
(***************************************************************************)
\* exit(ec[i]): every descriptor of the process is closed, the process
\* becomes a zombie holding its status.
Exit(i) ==
  /\ At(i, "exit")
  /\ pstate' = [pstate EXCEPT ![i] = "zombie"]
  /\ status' = [status EXCEPT ![i] = ec[i]]
  /\ pc' = [pc EXCEPT ![i] = "done"]
  /\ rd' = [j \in Pipes |-> rd[j] \ {i}]
  /\ wr' = [j \in Pipes |-> wr[j] \ {i}]
  /\ UNCHANGED trace
  /\ UNCHANGED <<ppvars, xvars>>
  /\ UNCHANGED <<N, cap, ec, fi, p, x, buf, made, out, errs, fail>>

\* The only child a process ever forks is the next layer.
HasChild(i) == i < MaxProc /\ pstate[i + 1] \in {"running", "zombie"}

\* Mutant: wait(0) returns without waiting for the child.
WaitNoBlock(i, l) == UNCHANGED pstate /\ Goto(i, l)

\* wait(0) of process i, continuing at label l: returns at once without
\* children, reaps a zombie child, blocks otherwise.
WaitStep(i, l) ==
  /\ IF HasChild(i)
       THEN /\ pstate[i + 1] = "zombie"
            /\ pstate' = [pstate EXCEPT ![i + 1] = "reaped"]
       ELSE UNCHANGED pstate
  /\ Goto(i, l)

(***************************************************************************)
(* main                                                                    *)
(***************************************************************************)
\* pipe(p), lines 128-132
MainPipe ==
  /\ At(0, "m_pipe")
  /\ \/ /\ made' = [made EXCEPT ![1] = TRUE]
        /\ rd' = [rd EXCEPT ![1] = {0}]
        /\ wr' = [wr EXCEPT ![1] = {0}]
        /\ Goto(0, "m_fork")
        /\ Log(0, <<"pipe", 1>>)
        /\ UNCHANGED <<ec, errs, fail>>
     \/ /\ errs' = errs \cup {<<0, "pipe() failed">>}
        /\ fail' = [kind |-> "pipe", at |-> 0]
        /\ GotoExit(0, 1)
        /\ UNCHANGED <<made, rd, wr, trace>>
  /\ UNCHANGED <<ppvars, xvars>>
  /\ UNCHANGED <<N, cap, pstate, status, fi, p, x, buf, out>>

\* fork(), lines 134-143: the child gets a copy of both ends of the pipe
MainFork ==
  /\ At(0, "m_fork")
  /\ \/ /\ pstate' = [pstate EXCEPT ![1] = "running"]
        /\ rd' = [rd EXCEPT ![1] = @ \cup {1}]
        /\ wr' = [wr EXCEPT ![1] = @ \cup {1}]
        /\ pc' = [pc EXCEPT ![0] = "m_close0", ![1] = "c_close_w"]
        /\ Log(0, <<"fork", 1>>)
        /\ UNCHANGED <<ec, errs, fail>>
     \/ /\ errs' = errs \cup {<<0, "fork() failed">>}
        /\ fail' = [kind |-> "fork", at |-> 0]
        /\ GotoExit(0, 1)
        /\ UNCHANGED <<pstate, rd, wr, trace>>
  /\ UNCHANGED <<ppvars, xvars>>
  /\ UNCHANGED <<N, cap, status, fi, p, x, buf, made, out>>

\* close(p[0]), line 151
MainCloseRead ==
  /\ At(0, "m_close0")
  /\ rd' = CloseRead(0, 1)
  /\ Goto(0, "m_feed")
  /\ Log(0, <<"closer", 1>>)
  /\ UNCHANGED <<ppvars, xvars>>
  /\ UNCHANGED <<N, cap, pstate, status, ec, fi, p, x, buf, wr, made, out,
                 errs, fail>>

\* feed_numbers, lines 5-12: one iteration of the loop, or its end
FeedNumbers ==
  /\ At(0, "m_feed")
  /\ IF fi <= N
       THEN IF WriteFails(1)
              THEN /\ errs' = errs \cup {<<0, "writer: write error">>}
                   /\ GotoExit(0, 1)
                   /\ Log(0, <<"wfail", fi>>)
                   /\ UNCHANGED <<fi, buf>>
              ELSE /\ CanWrite(1)
                   /\ buf' = [buf EXCEPT ![1] = Append(@, fi)]
                   /\ fi' = fi + 1
                   /\ Log(0, <<"write", fi>>)
                   /\ UNCHANGED <<pc, ec, errs>>
       ELSE /\ Goto(0, "m_close1")
            /\ UNCHANGED <<ec, fi, buf, errs, trace>>
  /\ UNCHANGED <<ppvars, xvars>>
  /\ UNCHANGED <<N, cap, pstate, status, p, x, rd, wr, made, out, fail>>

\* Mutant: main does not close the write end before it waits.
MainKeepWrite ==
  /\ At(0, "m_close1")
  /\ Goto(0, "m_wait")
  /\ UNCHANGED <<ppvars, xvars>>
  /\ UNCHANGED <<N, cap, pstate, status, ec, fi, p, x, buf, rd, wr, made, out,
                 errs, fail, trace>>

\* close(p[1]), line 153
MainCloseWrite ==
  /\ At(0, "m_close1")
  /\ wr' = CloseWrite(0, 1)
  /\ Goto(0, "m_wait")
  /\ Log(0, <<"closew", 1>>)
  /\ UNCHANGED <<ppvars, xvars>>
  /\ UNCHANGED <<N, cap, pstate, status, ec, fi, p, x, buf, rd, made, out,
                 errs, fail>>

\* wait(0); exit(0), lines 154-155
MainWait ==
  /\ At(0, "m_wait")
  /\ WaitStep(0, "exit")
  /\ ec' = [ec EXCEPT ![0] = 0]
  /\ Log(0, <<"wait", 0>>)
  /\ UNCHANGED <<ppvars, xvars>>
  /\ UNCHANGED <<N, cap, status, fi, p, x, buf, rd, wr, made, out, errs, fail>>

(***************************************************************************)
(* sieve(leftfd) run by process i: leftfd is the read end of pipe i, next  *)
(* is pipe i+1.                                                            *)
(***************************************************************************)
\* Mutant: the child keeps its copy of the write end of its input pipe.
ChildKeepWrite(i) ==
  /\ At(i, "c_close_w")
  /\ Goto(i, IF i = 1 THEN "read_first" ELSE "c_close_left")
  /\ UNCHANGED trace
  /\ UNCHANGED <<ppvars, xvars>>
  /\ UNCHANGED <<N, cap, pstate, status, ec, fi, p, x, buf, rd, wr, made, out,
                 errs, fail>>

\* close(p[1]) in main's child (line 147), close(next[1]) in a layer's
\* child (line 67): the child's copy of the write end of its input pipe
ChildCloseWrite(i) ==
  /\ At(i, "c_close_w")
  /\ wr' = CloseWrite(i, i)
  /\ Goto(i, IF i = 1 THEN "read_first" ELSE "c_close_left")
  /\ Log(i, <<"closew", i>>)
  /\ UNCHANGED <<ppvars, xvars>>
  /\ UNCHANGED <<N, cap, pstate, status, ec, fi, p, x, buf, rd, made, out,
                 errs, fail>>

\* close(leftfd) in a layer's child, line 68: the copy of the parent's input
ChildCloseLeft(i) ==
  /\ At(i, "c_close_left")
  /\ rd' = CloseRead(i, i - 1)
  /\ Goto(i, "read_first")
  /\ Log(i, <<"closer", i - 1>>)
  /\ UNCHANGED <<ppvars, xvars>>
  /\ UNCHANGED <<N, cap, pstate, status, ec, fi, p, x, buf, wr, made, out,
                 errs, fail>>

\* read(leftfd, &p), lines 24-27
ReadFirst(i) ==
  /\ At(i, "read_first")
  /\ \/ /\ CanRead(i)
        /\ p' = [p EXCEPT ![i] = Head(buf[i])]
        /\ buf' = [buf EXCEPT ![i] = Tail(@)]
        /\ Goto(i, "print")
        /\ Log(i, <<"read", Head(buf[i])>>)
     \/ /\ AtEOF(i)
        /\ Goto(i, "eof_close")
        /\ Log(i, <<"eof", i>>)
        /\ UNCHANGED <<p, buf>>
  /\ UNCHANGED <<ppvars, xvars>>
  /\ UNCHANGED <<N, cap, pstate, status, ec, fi, x, rd, wr, made, out, errs,
                 fail>>

\* Mutant: the value printed is x, not p.
PrintLastRead(i) ==
  /\ At(i, "print")
  /\ out' = Append(out, x[i])
  /\ Goto(i, "preread")
  /\ UNCHANGED trace
  /\ UNCHANGED <<ppvars, xvars>>
  /\ UNCHANGED <<N, cap, pstate, status, ec, fi, p, x, buf, rd, wr, made, errs,
                 fail>>

\* Mutant: the layer does not print its prime.
PrintSkip(i) ==
  /\ At(i, "print")
  /\ Goto(i, "preread")
  /\ UNCHANGED <<ppvars, xvars>>
  /\ UNCHANGED <<N, cap, pstate, status, ec, fi, p, x, buf, rd, wr, made, out,
                 errs, fail, trace>>

\* Mutant: the layer creates its output pipe before it has read any value
\* after its prime.
PrintThenGrow(i) ==
  /\ At(i, "print")
  /\ out' = Append(out, p[i])
  /\ Goto(i, "mkpipe")
  /\ UNCHANGED trace
  /\ UNCHANGED <<ppvars, xvars>>
  /\ UNCHANGED <<N, cap, pstate, status, ec, fi, p, x, buf, rd, wr, made, errs,
                 fail>>

\* printf("prime %d\n", p), line 30
PrintPrime(i) ==
  /\ At(i, "print")
  /\ out' = Append(out, p[i])
  /\ Goto(i, "preread")
  /\ UNCHANGED trace
  /\ UNCHANGED <<ppvars, xvars>>
  /\ UNCHANGED <<N, cap, pstate, status, ec, fi, p, x, buf, rd, wr, made, errs,
                 fail>>

\* the pre-read loop, lines 33-46: one read(leftfd, &x)
PreRead(i) ==
  /\ At(i, "preread")
  /\ \/ /\ CanRead(i)
        /\ x' = [x EXCEPT ![i] = Head(buf[i])]
        /\ buf' = [buf EXCEPT ![i] = Tail(@)]
        /\ Log(i, <<"read", Head(buf[i])>>)
        /\ Goto(i, IF Survives(Head(buf[i]), p[i]) THEN "mkpipe" ELSE "preread")
     \/ /\ AtEOF(i)
        /\ Goto(i, "eof_close")
        /\ Log(i, <<"eof", i>>)
        /\ UNCHANGED <<x, buf>>
  /\ UNCHANGED <<ppvars, xvars>>
  /\ UNCHANGED <<N, cap, pstate, status, ec, fi, p, rd, wr, made, out, errs,
                 fail>>

\* Mutant: end of input is left through exit(1).
EofCloseExit1(i) ==
  /\ At(i, "eof_close")
  /\ rd' = CloseRead(i, i)
  /\ GotoExit(i, 1)
  /\ Log(i, <<"closer", i>>)
  /\ UNCHANGED <<ppvars, xvars>>
  /\ UNCHANGED <<N, cap, pstate, status, fi, p, x, buf, wr, made, out, errs,
                 fail>>

\* close(leftfd); exit(0), lines 25-26 and 44-45
EofClose(i) ==
  /\ At(i, "eof_close")
  /\ rd' = CloseRead(i, i)
  /\ GotoExit(i, 0)
  /\ Log(i, <<"closer", i>>)
  /\ UNCHANGED <<ppvars, xvars>>
  /\ UNCHANGED <<N, cap, pstate, status, fi, p, x, buf, wr, made, out, errs,
                 fail>>

\* pipe(next), lines 49-54
MakePipe(i) ==
  /\ At(i, "mkpipe")
  /\ \/ /\ made' = [made EXCEPT ![i + 1] = TRUE]
        /\ rd' = [rd EXCEPT ![i + 1] = {i}]
        /\ wr' = [wr EXCEPT ![i + 1] = {i}]
        /\ Goto(i, "fork")
        /\ Log(i, <<"pipe", i + 1>>)
        /\ UNCHANGED <<errs, fail>>
     \/ /\ errs' = errs \cup {<<i, "pipe failed">>}
        /\ fail' = [kind |-> "pipe", at |-> i]
        /\ Goto(i, "pf_close_left")
        /\ UNCHANGED <<made, rd, wr, trace>>
  /\ UNCHANGED <<ppvars, xvars>>
  /\ UNCHANGED <<N, cap, pstate, status, ec, fi, p, x, buf, out>>

\* close(leftfd); exit(1) after a failed pipe(), lines 52-53
PipeFailClose(i) ==
  /\ At(i, "pf_close_left")
  /\ rd' = CloseRead(i, i)
  /\ GotoExit(i, 1)
  /\ Log(i, <<"closer", i>>)
  /\ UNCHANGED <<ppvars, xvars>>
  /\ UNCHANGED <<N, cap, pstate, status, fi, p, x, buf, wr, made, out, errs,
                 fail>>

\* fork(), lines 56-63: the child gets a copy of every descriptor of the
\* parent: leftfd, next[0] and next[1], and of its variables
Fork(i) ==
  /\ At(i, "fork")
  /\ \/ /\ pstate' = [pstate EXCEPT ![i + 1] = "running"]
        /\ rd' = [j \in Pipes |-> IF i \in rd[j] THEN rd[j] \cup {i + 1}
                                                 ELSE rd[j]]
        /\ wr' = [j \in Pipes |-> IF i \in wr[j] THEN wr[j] \cup {i + 1}
                                                 ELSE wr[j]]
        /\ pc' = [pc EXCEPT ![i] = "close_next0", ![i + 1] = "c_close_w"]
        /\ Log(i, <<"fork", i + 1>>)
        /\ UNCHANGED <<errs, fail>>
     \/ /\ errs' = errs \cup {<<i, "fork failed">>}
        /\ fail' = [kind |-> "fork", at |-> i]
        /\ Goto(i, "ff_close_left")
        /\ UNCHANGED <<pstate, rd, wr, trace>>
  /\ UNCHANGED <<ppvars, xvars>>
  /\ UNCHANGED <<N, cap, status, ec, fi, p, x, buf, made, out>>

\* close(leftfd), line 59
ForkFailCloseLeft(i) ==
  /\ At(i, "ff_close_left")
  /\ rd' = CloseRead(i, i)
  /\ Goto(i, "ff_close_next0")
  /\ Log(i, <<"closer", i>>)
  /\ UNCHANGED <<ppvars, xvars>>
  /\ UNCHANGED <<N, cap, pstate, status, ec, fi, p, x, buf, wr, made, out,
                 errs, fail>>

\* close(next[0]), line 60
ForkFailCloseNext0(i) ==
  /\ At(i, "ff_close_next0")
  /\ rd' = CloseRead(i, i + 1)
  /\ Goto(i, "ff_close_next1")
  /\ Log(i, <<"closer", i + 1>>)
  /\ UNCHANGED <<ppvars, xvars>>
  /\ UNCHANGED <<N, cap, pstate, status, ec, fi, p, x, buf, wr, made, out,
                 errs, fail>>

\* close(next[1]); exit(1), lines 61-62
ForkFailCloseNext1(i) ==
  /\ At(i, "ff_close_next1")
  /\ wr' = CloseWrite(i, i + 1)
  /\ GotoExit(i, 1)
  /\ Log(i, <<"closew", i + 1>>)
  /\ UNCHANGED <<ppvars, xvars>>
  /\ UNCHANGED <<N, cap, pstate, status, fi, p, x, buf, rd, made, out, errs,
                 fail>>

\* Mutant: the parent keeps its copy of next[0].
KeepNext0(i) ==
  /\ At(i, "close_next0")
  /\ Goto(i, "write_first")
  /\ UNCHANGED trace
  /\ UNCHANGED <<ppvars, xvars>>
  /\ UNCHANGED <<N, cap, pstate, status, ec, fi, p, x, buf, rd, wr, made, out,
                 errs, fail>>

\* close(next[0]) in the parent, line 75
CloseNext0(i) ==
  /\ At(i, "close_next0")
  /\ rd' = CloseRead(i, i + 1)
  /\ Goto(i, "write_first")
  /\ Log(i, <<"closer", i + 1>>)
  /\ UNCHANGED <<ppvars, xvars>>
  /\ UNCHANGED <<N, cap, pstate, status, ec, fi, p, x, buf, wr, made, out,
                 errs, fail>>

\* Mutant: the value written first is p, not first_nonmul.
WriteFirstPrime(i) ==
  /\ At(i, "write_first")
  /\ CanWrite(i + 1)
  /\ buf' = [buf EXCEPT ![i + 1] = Append(@, p[i])]
  /\ Log(i, <<"write", p[i]>>)
  /\ Goto(i, "loop_read")
  /\ UNCHANGED <<ppvars, xvars>>
  /\ UNCHANGED <<N, cap, pstate, status, ec, fi, p, x, rd, wr, made, out, errs,
                 fail>>

\* write(next[1], &first_nonmul), lines 84-86: a failure is reported and
\* the layer goes on to its forwarding loop
WriteFirst(i) ==
  /\ At(i, "write_first")
  /\ IF WriteFails(i + 1)
       THEN /\ errs' = errs \cup {<<i, "write error">>}
            /\ Log(i, <<"wfail", x[i]>>)
            /\ UNCHANGED buf
       ELSE /\ CanWrite(i + 1)
            /\ buf' = [buf EXCEPT ![i + 1] = Append(@, x[i])]
            /\ Log(i, <<"write", x[i]>>)
            /\ UNCHANGED errs
  /\ Goto(i, "loop_read")
  /\ UNCHANGED <<ppvars, xvars>>
  /\ UNCHANGED <<N, cap, pstate, status, ec, fi, p, x, rd, wr, made, out, fail>>

\* the forwarding loop, lines 92-93: one read(leftfd, &x)
LoopRead(i) ==
  /\ At(i, "loop_read")
  /\ \/ /\ CanRead(i)
        /\ x' = [x EXCEPT ![i] = Head(buf[i])]
        /\ buf' = [buf EXCEPT ![i] = Tail(@)]
        /\ Log(i, <<"read", Head(buf[i])>>)
        /\ Goto(i, IF Survives(Head(buf[i]), p[i]) THEN "loop_write"
                                                ELSE "loop_read")
     \/ /\ AtEOF(i)
        /\ Goto(i, "close_left")
        /\ Log(i, <<"eof", i>>)
        /\ UNCHANGED <<x, buf>>
  /\ UNCHANGED <<ppvars, xvars>>
  /\ UNCHANGED <<N, cap, pstate, status, ec, fi, p, rd, wr, made, out, errs,
                 fail>>

\* Mutant: a surviving value of the loop is not forwarded.
LoopWriteDrop(i) ==
  /\ At(i, "loop_write")
  /\ Goto(i, "loop_read")
  /\ UNCHANGED <<ppvars, xvars>>
  /\ UNCHANGED <<N, cap, pstate, status, ec, fi, p, x, buf, rd, wr, made, out,
                 errs, fail, trace>>

\* write(next[1], &x), lines 94-97: a failure is reported and ends the loop
LoopWrite(i) ==
  /\ At(i, "loop_write")
  /\ IF WriteFails(i + 1)
       THEN /\ errs' = errs \cup {<<i, "write error">>}
            /\ Goto(i, "close_left")
            /\ Log(i, <<"wfail", x[i]>>)
            /\ UNCHANGED buf
       ELSE /\ CanWrite(i + 1)
            /\ buf' = [buf EXCEPT ![i + 1] = Append(@, x[i])]
            /\ Goto(i, "loop_read")
            /\ Log(i, <<"write", x[i]>>)
            /\ UNCHANGED errs
  /\ UNCHANGED <<ppvars, xvars>>
  /\ UNCHANGED <<N, cap, pstate, status, ec, fi, p, x, rd, wr, made, out, fail>>

\* close(leftfd), line 102
CloseLeft(i) ==
  /\ At(i, "close_left")
  /\ rd' = CloseRead(i, i)
  /\ Goto(i, "close_next1")
  /\ Log(i, <<"closer", i>>)
  /\ UNCHANGED <<ppvars, xvars>>
  /\ UNCHANGED <<N, cap, pstate, status, ec, fi, p, x, buf, wr, made, out,
                 errs, fail>>

\* Mutant: the layer does not close the write end of its output pipe.
KeepNext1(i) ==
  /\ At(i, "close_next1")
  /\ Goto(i, "wait")
  /\ UNCHANGED <<ppvars, xvars>>
  /\ UNCHANGED <<N, cap, pstate, status, ec, fi, p, x, buf, rd, wr, made, out,
                 errs, fail, trace>>

\* close(next[1]), line 103
CloseNext1(i) ==
  /\ At(i, "close_next1")
  /\ wr' = CloseWrite(i, i + 1)
  /\ Goto(i, "wait")
  /\ Log(i, <<"closew", i + 1>>)
  /\ UNCHANGED <<ppvars, xvars>>
  /\ UNCHANGED <<N, cap, pstate, status, ec, fi, p, x, buf, rd, made, out,
                 errs, fail>>

\* wait(0); exit(0), lines 104-105
SieveWait(i) ==
  /\ At(i, "wait")
  /\ WaitStep(i, "exit")
  /\ ec' = [ec EXCEPT ![i] = 0]
  /\ Log(i, <<"wait", 0>>)
  /\ UNCHANGED <<ppvars, xvars>>
  /\ UNCHANGED <<N, cap, status, fi, p, x, buf, rd, wr, made, out, errs, fail>>

\* One step of the layer run by process i.
SieveStep(i) ==
  \/ ChildCloseWrite(i) \/ ChildCloseLeft(i) \/ ReadFirst(i) \/ PrintPrime(i)
  \/ PreRead(i) \/ EofClose(i) \/ MakePipe(i) \/ PipeFailClose(i) \/ Fork(i)
  \/ ForkFailCloseLeft(i) \/ ForkFailCloseNext0(i) \/ ForkFailCloseNext1(i)
  \/ CloseNext0(i) \/ WriteFirst(i) \/ LoopRead(i) \/ LoopWrite(i)
  \/ CloseLeft(i) \/ CloseNext1(i) \/ SieveWait(i) \/ Exit(i)

\* One step of main.
MainStep ==
  \/ MainPipe \/ MainFork \/ MainCloseRead \/ FeedNumbers \/ MainCloseWrite
  \/ MainWait \/ Exit(0)

Step(i) == IF i = 0 THEN MainStep ELSE SieveStep(i)

Next ==
  \/ MainPipe \/ MainFork \/ MainCloseRead \/ FeedNumbers \/ MainCloseWrite
  \/ MainWait
  \/ \E i \in Procs : Exit(i)
  \/ \E i \in Stages :
        \/ ChildCloseWrite(i) \/ ChildCloseLeft(i) \/ ReadFirst(i)
        \/ PrintPrime(i) \/ PreRead(i) \/ EofClose(i) \/ MakePipe(i)
        \/ PipeFailClose(i) \/ Fork(i) \/ ForkFailCloseLeft(i)
        \/ ForkFailCloseNext0(i) \/ ForkFailCloseNext1(i) \/ CloseNext0(i)
        \/ WriteFirst(i) \/ LoopRead(i) \/ LoopWrite(i) \/ CloseLeft(i)
        \/ CloseNext1(i) \/ SieveWait(i)

\* The state of the prime pipeline while another program is modelled.
PrimesIdle ==
  /\ N = 1 /\ cap = 1 /\ fi = 2 /\ out = <<>> /\ errs = {} /\ fail = NoFail
  /\ pc = [i \in Procs |-> "none"]
  /\ pstate = [i \in Procs |-> "unused"]
  /\ status = [i \in Procs |-> -1]
  /\ ec = [i \in Procs |-> 0]
  /\ p = [i \in Procs |-> 0]
  /\ x = [i \in Procs |-> 0]
  /\ buf = [j \in Pipes |-> <<>>]
  /\ rd = [j \in Pipes |-> {}]
  /\ wr = [j \in Pipes |-> {}]
  /\ made = [j \in Pipes |-> FALSE]
  /\ trace = [i \in Procs |-> <<>>]

(***************************************************************************)
(* pingpong.c                                                              *)
(***************************************************************************)
\* Largest process id that is explored.
MaxPid == 3
Pids == 1..MaxPid
Who == {"parent", "child"}
Chans == {"p2c", "c2p"}

PingpongInit ==
  /\ ppPc = [w \in Who |-> IF w = "parent" THEN "pipe1" ELSE "none"]
  /\ ppState = [w \in Who |-> IF w = "parent" THEN "running" ELSE "unused"]
  /\ ppStatus = [w \in Who |-> -1]
  /\ ppEc = [w \in Who |-> 0]
  /\ \E k \in Pids : ppPid = [w \in Who |-> IF w = "parent" THEN k ELSE 0]
  /\ byte = [w \in Who |-> "undef"]
  /\ ppBuf = [c \in Chans |-> <<>>]
  /\ ppRd = [c \in Chans |-> {}]
  /\ ppWr = [c \in Chans |-> {}]
  /\ ppOut = <<>>
  /\ ppErrs = {}
  /\ ppLog = <<>>

\* The state of pingpong while another program is modelled.
PingpongIdle ==
  /\ ppPc = [w \in Who |-> "none"]
  /\ ppState = [w \in Who |-> "unused"]
  /\ ppStatus = [w \in Who |-> -1]
  /\ ppEc = [w \in Who |-> 0]
  /\ ppPid = [w \in Who |-> 0]
  /\ byte = [w \in Who |-> "undef"]
  /\ ppBuf = [c \in Chans |-> <<>>]
  /\ ppRd = [c \in Chans |-> {}]
  /\ ppWr = [c \in Chans |-> {}]
  /\ ppOut = <<>>
  /\ ppErrs = {}
  /\ ppLog = <<>>

PpAt(w, l) == ppState[w] = "running" /\ ppPc[w] = l
PpGoto(w, l) == ppPc' = [ppPc EXCEPT ![w] = l]
PpGotoExit(w, code) == /\ ppPc' = [ppPc EXCEPT ![w] = "exit"]
                       /\ ppEc' = [ppEc EXCEPT ![w] = code]

\* close(fd) by w at label l, continuing at label m: the read end (end =
\* "r") or the write end (end = "w") of pipe c.
PpClose(w, l, c, end, m) ==
  /\ PpAt(w, l)
  /\ IF end = "r" THEN /\ ppRd' = [ppRd EXCEPT ![c] = @ \ {w}]
                       /\ UNCHANGED ppWr
                  ELSE /\ ppWr' = [ppWr EXCEPT ![c] = @ \ {w}]
                       /\ UNCHANGED ppRd
  /\ PpGoto(w, m)
  /\ UNCHANGED <<ppState, ppStatus, ppEc, ppPid, byte, ppBuf, ppOut, ppErrs,
                 ppLog>>
  /\ UNCHANGED <<pvars, xvars>>

\* pipe(c) by the parent at label l, lines 28-31: on success continue at m.
PpPipe(l, c, m) ==
  /\ PpAt("parent", l)
  /\ \/ /\ ppRd' = [ppRd EXCEPT ![c] = {"parent"}]
        /\ ppWr' = [ppWr EXCEPT ![c] = {"parent"}]
        /\ PpGoto("parent", m)
        /\ UNCHANGED <<ppEc, ppErrs>>
     \/ /\ ppErrs' = ppErrs \cup {"pipe() failed"}
        /\ PpGotoExit("parent", 1)
        /\ UNCHANGED <<ppRd, ppWr>>
  /\ UNCHANGED <<ppState, ppStatus, ppPid, byte, ppBuf, ppOut, ppLog>>
  /\ UNCHANGED <<pvars, xvars>>

\* pipe(p2c), line 28
PpPipe1 == PpPipe("pipe1", "p2c", "pipe2")
\* pipe(c2p), line 28
PpPipe2 == PpPipe("pipe2", "c2p", "fork")

\* fork(), lines 33-37: the child gets a copy of all four pipe ends
PpFork ==
  /\ PpAt("parent", "fork")
  /\ \/ /\ \E k \in Pids \ {ppPid["parent"]} :
             ppPid' = [ppPid EXCEPT !["child"] = k]
        /\ ppState' = [ppState EXCEPT !["child"] = "running"]
        /\ ppRd' = [c \in Chans |-> ppRd[c] \cup {"child"}]
        /\ ppWr' = [c \in Chans |-> ppWr[c] \cup {"child"}]
        /\ ppPc' = [parent |-> "p_close_p2c_r", child |-> "c_close_p2c_w"]
        /\ UNCHANGED <<ppEc, ppErrs>>
     \/ /\ ppErrs' = ppErrs \cup {"fork() failed"}
        /\ PpGotoExit("parent", 1)
        /\ UNCHANGED <<ppPid, ppState, ppRd, ppWr>>
  /\ UNCHANGED <<ppStatus, byte, ppBuf, ppOut, ppLog>>
  /\ UNCHANGED <<pvars, xvars>>

\* read(fd, &byte, 1) by w on pipe c, lines 62-65 and 88-91: the byte is
\* read, or read returns 0 at end of file and w reports it and leaves
PpRead(w, l, c, ev, msg, m) ==
  /\ PpAt(w, l)
  /\ \/ /\ ppBuf[c] # <<>>
        /\ byte' = [byte EXCEPT ![w] = Head(ppBuf[c])]
        /\ ppBuf' = [ppBuf EXCEPT ![c] = Tail(@)]
        /\ ppLog' = Append(ppLog, ev)
        /\ PpGoto(w, m)
        /\ UNCHANGED <<ppEc, ppErrs>>
     \/ /\ ppBuf[c] = <<>> /\ ppWr[c] = {}
        /\ ppErrs' = ppErrs \cup {msg}
        /\ PpGotoExit(w, 1)
        /\ UNCHANGED <<byte, ppBuf, ppLog>>
  /\ UNCHANGED <<ppState, ppStatus, ppPid, ppRd, ppWr, ppOut>>
  /\ UNCHANGED <<pvars, xvars>>

\* write(fd, &byte, 1) by w of the byte b on pipe c, lines 70-73 and 83-86
PpWrite(w, l, c, b, ev, msg, m) ==
  /\ PpAt(w, l)
  /\ IF ppRd[c] = {}
       THEN /\ ppErrs' = ppErrs \cup {msg}
            /\ PpGotoExit(w, 1)
            /\ UNCHANGED <<ppBuf, ppLog>>
       ELSE /\ ppBuf' = [ppBuf EXCEPT ![c] = Append(@, b)]
            /\ ppLog' = Append(ppLog, ev)
            /\ PpGoto(w, m)
            /\ UNCHANGED <<ppEc, ppErrs>>
  /\ UNCHANGED <<ppState, ppStatus, ppPid, ppRd, ppWr, ppOut>>

\* printf("%d: received ...\n", getpid()), lines 68 and 93
PpPrint(w, l, text, m) ==
  /\ PpAt(w, l)
  /\ ppOut' = Append(ppOut, <<ppPid[w], text>>)
  /\ PpGoto(w, m)
  /\ UNCHANGED <<ppState, ppStatus, ppEc, ppPid, byte, ppBuf, ppRd, ppWr,
                 ppErrs, ppLog>>
  /\ UNCHANGED <<pvars, xvars>>

\* exit(ppEc[w]): every descriptor of w is closed
PpExit(w) ==
  /\ PpAt(w, "exit")
  /\ ppState' = [ppState EXCEPT ![w] = "zombie"]
  /\ ppStatus' = [ppStatus EXCEPT ![w] = ppEc[w]]
  /\ ppPc' = [ppPc EXCEPT ![w] = "done"]
  /\ ppRd' = [c \in Chans |-> ppRd[c] \ {w}]
  /\ ppWr' = [c \in Chans |-> ppWr[c] \ {w}]
  /\ UNCHANGED <<ppEc, ppPid, byte, ppBuf, ppOut, ppErrs, ppLog>>
  /\ UNCHANGED <<pvars, xvars>>

\* The child: lines 43-77
PpChildCloseP2cWrite == PpClose("child", "c_close_p2c_w", "p2c", "w",
                                "c_close_c2p_r")
PpChildCloseC2pRead == PpClose("child", "c_close_c2p_r", "c2p", "r", "c_read")
PpChildRead == PpRead("child", "c_read", "p2c", "child read",
                      "child: read error", "c_print")
PpChildPrint == PpPrint("child", "c_print", "received ping", "c_write")
\* Mutant: the child answers with a byte of its own.
PpChildWriteOther ==
  /\ PpWrite("child", "c_write", "c2p", "y", "child write",
             "child: write error", "c_close_p2c_r")
  /\ UNCHANGED <<byte, pvars, xvars>>
PpChildWrite ==
  /\ PpWrite("child", "c_write", "c2p", byte["child"], "child write",
             "child: write error", "c_close_p2c_r")
  /\ UNCHANGED <<byte, pvars, xvars>>
PpChildCloseP2cRead == PpClose("child", "c_close_p2c_r", "p2c", "r",
                               "c_close_c2p_w")
\* close(c2p[1]); exit(0), lines 76-77
PpChildCloseC2pWrite ==
  /\ PpAt("child", "c_close_c2p_w")
  /\ ppWr' = [ppWr EXCEPT !["c2p"] = @ \ {"child"}]
  /\ PpGotoExit("child", 0)
  /\ UNCHANGED <<ppState, ppStatus, ppPid, byte, ppBuf, ppRd, ppOut, ppErrs,
                 ppLog>>
  /\ UNCHANGED <<pvars, xvars>>

\* Mutant: the parent exits without waiting for the child.
PpParentNoWait ==
  /\ PpAt("parent", "p_wait")
  /\ PpGotoExit("parent", 0)
  /\ UNCHANGED <<ppState, ppStatus, ppPid, byte, ppBuf, ppRd, ppWr, ppOut,
                 ppErrs, ppLog>>
  /\ UNCHANGED <<pvars, xvars>>

\* The parent: lines 79-118
PpParentCloseP2cRead == PpClose("parent", "p_close_p2c_r", "p2c", "r",
                                "p_close_c2p_w")
PpParentCloseC2pWrite == PpClose("parent", "p_close_c2p_w", "c2p", "w",
                                 "p_write")
\* char byte = 'x'; write(p2c[1], &byte, 1), lines 82-86
PpParentWrite ==
  /\ PpWrite("parent", "p_write", "p2c", "x", "parent write",
             "parents: write error", "p_read")
  /\ byte' = [byte EXCEPT !["parent"] = "x"]
  /\ UNCHANGED <<pvars, xvars>>
PpParentRead == PpRead("parent", "p_read", "c2p", "parent read",
                       "parents: read error", "p_print")
PpParentPrint == PpPrint("parent", "p_print", "received pong",
                         "p_close_p2c_w")
PpParentCloseP2cWrite == PpClose("parent", "p_close_p2c_w", "p2c", "w",
                                 "p_close_c2p_r")
PpParentCloseC2pRead == PpClose("parent", "p_close_c2p_r", "c2p", "r",
                                "p_wait")
\* wait(0); exit(0), lines 117-118: blocks until the child is a zombie
PpParentWait ==
  /\ PpAt("parent", "p_wait")
  /\ IF ppState["child"] \in {"running", "zombie"}
       THEN /\ ppState["child"] = "zombie"
            /\ ppState' = [ppState EXCEPT !["child"] = "reaped"]
       ELSE UNCHANGED ppState
  /\ PpGotoExit("parent", 0)
  /\ UNCHANGED <<ppStatus, ppPid, byte, ppBuf, ppRd, ppWr, ppOut, ppErrs,
                 ppLog>>
  /\ UNCHANGED <<pvars, xvars>>

PpChildStep ==
  \/ PpChildCloseP2cWrite \/ PpChildCloseC2pRead \/ PpChildRead
  \/ PpChildPrint \/ PpChildWrite \/ PpChildCloseP2cRead
  \/ PpChildCloseC2pWrite \/ PpExit("child")

PpParentStep ==
  \/ PpPipe1 \/ PpPipe2 \/ PpFork \/ PpParentCloseP2cRead
  \/ PpParentCloseC2pWrite \/ PpParentWrite \/ PpParentRead \/ PpParentPrint
  \/ PpParentCloseP2cWrite \/ PpParentCloseC2pRead \/ PpParentWait
  \/ PpExit("parent")

PingpongNext ==
  \/ PpPipe1 \/ PpPipe2 \/ PpFork \/ PpParentCloseP2cRead
  \/ PpParentCloseC2pWrite \/ PpParentWrite \/ PpParentRead \/ PpParentPrint
  \/ PpParentCloseP2cWrite \/ PpParentCloseC2pRead \/ PpParentWait
  \/ PpChildCloseP2cWrite \/ PpChildCloseC2pRead \/ PpChildRead
  \/ PpChildPrint \/ PpChildWrite \/ PpChildCloseP2cRead
  \/ PpChildCloseC2pWrite
  \/ \E w \in Who : PpExit(w)

(***************************************************************************)
(* xargs.c                                                                 *)
(***************************************************************************)
\* kernel/param.h, included at line 3
MAXARG == 32
TOKSZ == 128
\* Longest standard input that is explored.
MaxInput == 4

\* Characters: "SP" space, "TAB" tab, "NL" newline, "BS" backslash, "DQ"
\* double quote, "SQ" single quote; "a" and "n" are ordinary letters.
Chars == {"a", "n", "SP", "TAB", "NL", "BS", "DQ", "SQ"}
Inputs == UNION {[1..k -> Chars] : k \in 0..MaxInput}

\* The command and its fixed arguments: n words.
Cmd(n) == [k \in 1..n |-> IF k = 1 THEN "echo" ELSE "arg"]
FixedCounts == {0, 1, MAXARG - 3, MAXARG - 2, MAXARG - 1}
\* Every argv of at most MAXARG words, the longest argv exec passes on.
ArgvSet == {a \in {<<"xargs">> \o o \o Cmd(n) :
                     o \in {<<>>, <<"-n", "1">>, <<"-n", "2">>},
                     n \in FixedCounts} : Len(a) <= MAXARG}

NoCall == [fixed |-> <<>>, words |-> <<>>]

XargsInit ==
  /\ xArgv \in ArgvSet
  /\ xIn \in Inputs
  /\ xPc = "args"
  /\ per_token = FALSE
  /\ fcnt = 0
  /\ tok = <<>>
  /\ words = <<>>
  /\ xCall = NoCall
  /\ xRet = "none"
  /\ xChild = "none"
  /\ xExecs = <<>>
  /\ xToks = <<>>
  /\ xErrs = {}
  /\ xStatus = -1
  /\ xUB = FALSE

\* The state of xargs while another program is modelled.
XargsIdle ==
  /\ xArgv = <<>> /\ xIn = <<>> /\ xPc = "none" /\ per_token = FALSE
  /\ fcnt = 0 /\ tok = <<>> /\ words = <<>> /\ xCall = NoCall
  /\ xRet = "none" /\ xChild = "none" /\ xExecs = <<>> /\ xToks = <<>>
  /\ xErrs = {} /\ xStatus = -1 /\ xUB = FALSE

\* argc and argv[k] of the C program (argv is indexed from 0 there).
argc == Len(xArgv)
argv(k) == xArgv[k + 1]
\* fixed[0..fcnt-1], lines 118-122
fixed == SubSeq(xArgv, argc - fcnt + 1, argc)
tlen == Len(tok)
wcnt == Len(words)

\* exit(code) after the message msg was written to fd 2
XFail(msg) ==
  /\ xErrs' = xErrs \cup {msg}
  /\ xStatus' = 1
  /\ xPc' = "done"

\* Option parsing, lines 85-122
XParseArgs ==
  /\ xPc = "args"
  /\ IF argc >= 3 /\ argv(1) = "-n"
       THEN IF argv(2) # "1"
              THEN /\ XFail("xargs: only -n 1 supported")
                   /\ UNCHANGED <<per_token, fcnt>>
              ELSE IF 3 >= argc
                     THEN /\ XFail("usage: xargs [-n 1] <cmd> [args...]")
                          /\ UNCHANGED <<per_token, fcnt>>
                     ELSE /\ per_token' = TRUE
                          /\ fcnt' = argc - 3
                          /\ xPc' = "read"
                          /\ UNCHANGED <<xErrs, xStatus>>
       ELSE IF 1 >= argc
              THEN /\ XFail("usage: xargs [-n 1] <cmd> [args...]")
                   /\ UNCHANGED <<per_token, fcnt>>
              ELSE /\ fcnt' = argc - 1
                   /\ xPc' = "read"
                   /\ UNCHANGED <<per_token, xErrs, xStatus>>
  /\ UNCHANGED <<xArgv, xIn, tok, words, xCall, xRet, xChild, xExecs, xToks,
                 xUB>>
  /\ UNCHANGED <<pvars, ppvars>>

\* tok[tlen++] = c when tlen < TOKSZ - 1, lines 189, 195, 223
PutChar(t, c) == IF Len(t) < TOKSZ - 1 THEN Append(t, c) ELSE t

\* Mutant: the token closed by the escape is stored like any other token.
StoredAfterAlways(esc, ws, t) == Append(ws, t)
\* words[] after the token t was closed and copied: words[wcnt++] = s at
\* lines 215 and 245; the branch of the escape (lines 180-182) copies the
\* token and does not store the copy.
StoredAfter(esc, ws, t) == IF esc THEN ws ELSE Append(ws, t)

\* The token in tok is closed by a delimiter (lines 165-185, 203-218) or by
\* the end of input (lines 233-247).  esc: the delimiter is the escape
\* backslash-n.  rest: the input left.  back: where main goes on.
EndToken(esc, rest, back) ==
  /\ xIn' = rest
  /\ xToks' = Append(xToks, tok)
  /\ IF per_token
       THEN \* run_with_token(fixed, fcnt, tok)
            /\ xCall' = [fixed |-> fixed, words |-> <<tok>>]
            /\ xPc' = "fork"
            /\ xRet' = IF back = "read" THEN "clear" ELSE back
            /\ UNCHANGED <<tok, words, xErrs, xStatus>>
       ELSE IF fcnt + wcnt + 1 >= MAXARG
              THEN \* flush: run_with_tokens(fixed, fcnt, words, wcnt)
                   /\ xCall' = [fixed |-> fixed, words |-> words]
                   /\ xPc' = "fork"
                   /\ xRet' = IF esc THEN "copy"
                              ELSE IF back = "read" THEN "store"
                              ELSE "store_eof"
                   /\ UNCHANGED <<tok, words, xErrs, xStatus>>
              ELSE \/ /\ words' = StoredAfter(esc, words, tok)
                      /\ tok' = IF back = "read" THEN <<>> ELSE tok
                      /\ xPc' = back
                      /\ UNCHANGED <<xCall, xRet, xErrs, xStatus>>
                   \/ \* malloc returns 0
                      /\ XFail("xargs: malloc failed")
                      /\ UNCHANGED <<tok, words, xCall, xRet>>

\* One iteration of the loop while ((r = read(0, &ch, 1)) == 1), lines
\* 140-224, or its end when read returns 0
XReadChar ==
  /\ xPc = "read"
  /\ IF xIn = <<>>
       THEN /\ xPc' = "eof"
            /\ UNCHANGED <<xIn, tok, words, xCall, xRet, xToks, xErrs, xStatus>>
       ELSE LET ch == Head(xIn) IN
         IF ch \in {"DQ", "SQ"}
           THEN /\ xIn' = Tail(xIn)
                /\ UNCHANGED <<xPc, tok, words, xCall, xRet, xToks, xErrs,
                               xStatus>>
         ELSE IF ch = "BS"
           THEN LET r2 == IF Len(xIn) >= 2 THEN 1 ELSE 0
                    rest == IF r2 = 1 THEN Tail(Tail(xIn)) ELSE Tail(xIn)
                IN IF r2 = 1 /\ xIn[2] = "n"
                     THEN IF tlen > 0
                            THEN EndToken(TRUE, rest, "read")
                            ELSE /\ xIn' = rest
                                 /\ UNCHANGED <<xPc, tok, words, xCall, xRet,
                                                xToks, xErrs, xStatus>>
                     ELSE /\ xIn' = rest
                          /\ tok' = IF r2 = 1
                                      THEN PutChar(PutChar(tok, "BS"), xIn[2])
                                      ELSE PutChar(tok, "BS")
                          /\ UNCHANGED <<xPc, words, xCall, xRet, xToks,
                                         xErrs, xStatus>>
         ELSE IF ch \in {"SP", "TAB", "NL"}
           THEN IF tlen > 0
                  THEN EndToken(FALSE, Tail(xIn), "read")
                  ELSE /\ xIn' = Tail(xIn)
                       /\ UNCHANGED <<xPc, tok, words, xCall, xRet, xToks,
                                      xErrs, xStatus>>
         ELSE /\ xIn' = Tail(xIn)
              /\ tok' = PutChar(tok, ch)
              /\ UNCHANGED <<xPc, words, xCall, xRet, xToks, xErrs, xStatus>>
  /\ UNCHANGED <<xArgv, per_token, fcnt, xChild, xExecs, xUB>>
  /\ UNCHANGED <<pvars, ppvars>>

\* End of input: the token left in tok, lines 233-247
XEof ==
  /\ xPc = "eof"
  /\ IF tlen > 0
       THEN EndToken(FALSE, xIn, "final")
       ELSE /\ xPc' = "final"
            /\ UNCHANGED <<xIn, tok, words, xCall, xRet, xToks, xErrs, xStatus>>
  /\ UNCHANGED <<xArgv, per_token, fcnt, xChild, xExecs, xUB>>
  /\ UNCHANGED <<pvars, ppvars>>

\* After run_with_token(s) has returned inside the loop or at end of input:
\* the token is copied (malloc, memmove) and stored, then tlen = 0
XAfterRun ==
  /\ xPc \in {"clear", "copy", "store", "store_eof"}
  /\ \/ /\ words' = IF xPc = "clear" THEN words
                    ELSE StoredAfter(xPc = "copy", words, tok)
        /\ tok' = IF xPc = "store_eof" THEN tok ELSE <<>>
        /\ xPc' = IF xPc = "store_eof" THEN "final" ELSE "read"
        /\ UNCHANGED <<xErrs, xStatus>>
     \/ /\ xPc # "clear"
        /\ XFail("xargs: malloc failed")
        /\ UNCHANGED <<tok, words>>
  /\ UNCHANGED <<xArgv, xIn, per_token, fcnt, xCall, xRet, xChild, xExecs,
                 xToks, xUB>>
  /\ UNCHANGED <<pvars, ppvars>>

\* No -n: one execution of what was accumulated, then exit(0), lines 250-255
XFinal ==
  /\ xPc = "final"
  /\ IF ~per_token /\ wcnt > 0
       THEN /\ xCall' = [fixed |-> fixed, words |-> words]
            /\ xPc' = "fork"
            /\ xRet' = "exit"
            /\ UNCHANGED xStatus
       ELSE /\ xStatus' = 0
            /\ xPc' = "done"
            /\ UNCHANGED <<xCall, xRet>>
  /\ UNCHANGED <<xArgv, xIn, per_token, fcnt, tok, words, xChild, xExecs,
                 xToks, xErrs, xUB>>
  /\ UNCHANGED <<pvars, ppvars>>

\* exit(0), line 255, after the last run_with_tokens
XExit ==
  /\ xPc = "exit"
  /\ xStatus' = 0
  /\ xPc' = "done"
  /\ UNCHANGED <<xArgv, xIn, per_token, fcnt, tok, words, xCall, xRet, xChild,
                 xExecs, xToks, xErrs, xUB>>
  /\ UNCHANGED <<pvars, ppvars>>

\* The entries of args[] that run_with_token(s) writes: the fixed
\* arguments, the words and the terminating 0 (lines 23-25, 45-47).
ArgsEntries(c) == Len(c.fixed) + Len(c.words) + 1

\* run_with_token(s): args[] is filled and fork() is called, lines 20-27
\* and 42-49, 34-37 and 56-59.  Writing past args[MAXARG-1] is undefined:
\* the process goes on or is killed.
XFork ==
  /\ xPc = "fork"
  /\ xUB' = (xUB \/ ArgsEntries(xCall) > MAXARG)
  /\ \/ /\ xChild' = "forked"
        /\ xPc' = "wait"
        /\ UNCHANGED <<xErrs, xStatus>>
     \/ /\ XFail("xargs: fork failed")
        /\ UNCHANGED xChild
     \/ /\ ArgsEntries(xCall) > MAXARG
        /\ xPc' = "done"
        /\ xStatus' = -2
        /\ UNCHANGED <<xChild, xErrs>>
  /\ UNCHANGED <<xArgv, xIn, per_token, fcnt, tok, words, xCall, xRet, xExecs,
                 xToks>>
  /\ UNCHANGED <<pvars, ppvars>>

\* The child: exec(args[0], args), lines 28-31 and 50-53
XChildExec ==
  /\ xChild = "forked"
  /\ xExecs' = Append(xExecs, xCall)
  /\ \/ /\ xChild' = "execd"
        /\ UNCHANGED xErrs
     \/ /\ xErrs' = xErrs \cup {"xargs: exec failed"}
        /\ xChild' = "zombie"
  /\ UNCHANGED <<xArgv, xIn, xPc, per_token, fcnt, tok, words, xCall, xRet,
                 xToks, xStatus, xUB>>
  /\ UNCHANGED <<pvars, ppvars>>

\* The command run by the child ends.
XChildDone ==
  /\ xChild = "execd"
  /\ xChild' = "zombie"
  /\ UNCHANGED <<xArgv, xIn, xPc, per_token, fcnt, tok, words, xCall, xRet,
                 xExecs, xToks, xErrs, xStatus, xUB>>
  /\ UNCHANGED <<pvars, ppvars>>

\* Mutant: wait(0) returns while the child is still running.
XWaitNoBlock ==
  /\ xPc = "wait"
  /\ words' = IF per_token THEN words ELSE <<>>
  /\ xPc' = xRet
  /\ UNCHANGED <<xArgv, xIn, per_token, fcnt, tok, xCall, xRet, xChild, xExecs,
                 xToks, xErrs, xStatus, xUB>>
  /\ UNCHANGED <<pvars, ppvars>>

\* wait(0) in the parent, lines 33 and 55; run_with_tokens then frees the
\* words (lines 62-70) and its caller sets wcnt = 0
XWait ==
  /\ xPc = "wait"
  /\ xChild = "zombie"
  /\ xChild' = "none"
  /\ words' = IF per_token THEN words ELSE <<>>
  /\ xPc' = xRet
  /\ UNCHANGED <<xArgv, xIn, per_token, fcnt, tok, xCall, xRet, xExecs, xToks,
                 xErrs, xStatus, xUB>>
  /\ UNCHANGED <<pvars, ppvars>>

XargsNext ==
  \/ XParseArgs \/ XReadChar \/ XEof \/ XAfterRun \/ XFinal \/ XExit
  \/ XFork \/ XChildExec \/ XChildDone \/ XWait

XargsSpecInit == PrimesIdle /\ PingpongIdle /\ XargsInit

\* xargs: main and the child it waits for.
XargsSpec == XargsSpecInit /\ [][XargsNext]_vars

XargsFairSpec == XargsSpec /\ WF_vars(XargsNext)

\* pingpong: every interleaving of parent and child.
PingpongSpecInit == PrimesIdle /\ PingpongInit /\ XargsIdle

PingpongSpec == PingpongSpecInit /\ [][PingpongNext]_vars

PingpongFairSpec ==
  PingpongSpec /\ WF_vars(PpParentStep) /\ WF_vars(PpChildStep)

Init == PrimesInit /\ PingpongIdle /\ XargsIdle

\* primes: every interleaving of main and the layers.
Spec == Init /\ [][Next]_vars

\* Every process is scheduled: weak fairness of each process's steps.
FairSpec == Spec /\ \A i \in Procs : WF_vars(Step(i))

\* A sieve process is killed from outside (kill(pid) by another process of
\* the system): it exits with status -1 wherever it is, which closes every
\* descriptor it holds.  This is the only way the read end of an output
\* pipe can be gone when the write of line 84 is issued.  At most one
\* process is killed in a run, and none after a failed pipe() or fork().
Kill(i) ==
  /\ pstate[i] = "running"
  /\ fail = NoFail
  /\ fail' = [kind |-> "kill", at |-> i]
  /\ pstate' = [pstate EXCEPT ![i] = "zombie"]
  /\ status' = [status EXCEPT ![i] = -1]
  /\ pc' = [pc EXCEPT ![i] = "done"]
  /\ rd' = [j \in Pipes |-> rd[j] \ {i}]
  /\ wr' = [j \in Pipes |-> wr[j] \ {i}]
  /\ UNCHANGED <<ppvars, xvars>>
  /\ UNCHANGED <<N, cap, ec, fi, p, x, buf, made, out, errs, trace>>

KillNext == Next \/ \E i \in Stages : Kill(i)

\* primes with sieve processes that may be killed from outside.
KillSpec == Init /\ [][KillNext]_vars

(***************************************************************************)
(* Properties of the prime pipeline                                        *)
(***************************************************************************)
IsPrime(n) == n >= 2 /\ \A d \in 2..(n - 1) : n % d # 0
\* The primes of [2, n] in ascending order.
PrimesUpTo(n) == SelectSeq([k \in 1..(n - 1) |-> k + 1], IsPrime)
IsPrefix(s, t) == Len(s) <= Len(t) /\ SubSeq(t, 1, Len(s)) = s

Failed == fail.kind # "none"
DriverExited == pstate[0] # "running"
AllExited == \A i \in Procs : pstate[i] # "running"
AllClosed == \A j \in Pipes : rd[j] = {} /\ wr[j] = {}

\* C1: in a failure-free run over [2, N], N >= 2, the values printed so far
\* are always an initial part of the ascending list of the primes of [2, N],
\* and once main has exited they are exactly that list, for every
\* interleaving and every pipe capacity.
C1_PrintedArePrimes ==
  (N >= 2 /\ ~Failed) =>
     /\ IsPrefix(out, PrimesUpTo(N))
     /\ DriverExited => out = PrimesUpTo(N)

C1_Witness ==
  N = 10 /\ ~Failed /\ DriverExited /\ out = <<2, 3, 5, 7>>

\* C2: no hang.  Under weak fairness of every process a failure-free
\* execution reaches a state where main has exited, and a failure-free
\* state in which no process can take a step has no running process (no
\* process is left blocked in read, write or wait).
C2_NoHang ==
  /\ <>(Failed \/ DriverExited)
  /\ []((~Failed /\ ~ENABLED Next) => AllExited)

C2_Witness ==
  N >= 7 /\ cap = 1 /\ ~Failed /\ DriverExited /\ Len(out) >= 4

\* C3: the exit status of main is 0 exactly when no component reported a
\* failure: whenever main has exited, its status is 0 if and only if no
\* error message was written by main or by any layer.
C3_ExitStatusReflectsErrors ==
  DriverExited => (status[0] = 0 <=> errs = {})

\* C4: main does not exit while a layer is still running or not yet reaped:
\* when main has exited, every layer that was created has been reaped.
C4_DriverJoinsAll ==
  DriverExited => \A i \in Stages : pstate[i] \in {"unused", "reaped"}

\* C5: when main has exited after a failure-free run, no process is
\* running and no process holds a read end or a write end of any pipe.
C5_NothingLeftOpen ==
  (DriverExited /\ ~Failed) => (AllExited /\ AllClosed)

C5_Witness ==
  DriverExited /\ ~Failed /\ made[3] /\ AllExited /\ AllClosed

\* A layer above the one whose fork() or pipe() failed, which has exited.
UpstreamExited(i) ==
  Failed /\ i < fail.at /\ pstate[i] \in {"zombie", "reaped"}

\* C6 (as stated): after a failed fork() or pipe() in a layer, under weak
\* fairness every process eventually has exited, and each upstream layer
\* has observed a failed write before it exits.
C6_UpstreamSeesFailedWrite ==
  /\ Failed ~> AllExited
  /\ [](\A i \in Stages : UpstreamExited(i) => <<i, "write error">> \in errs)

\* C6 (amended): after a failed fork() or pipe() in a layer the chain is
\* not left blocked: under weak fairness of every process, every process,
\* main included, eventually has exited; and each upstream layer, whether
\* it left its loop by a failed write or by end of input, exits only after
\* it has closed its pipe ends and reaped its child.
C6_FailureUnwinds ==
  /\ Failed ~> AllExited
  /\ [](\A i \in Stages : UpstreamExited(i) =>
           /\ pstate[i + 1] = "reaped"
           /\ \A j \in Pipes : i \notin rd[j] /\ i \notin wr[j])

C6_Witness ==
  /\ Failed /\ fail.at >= 2 /\ AllExited
  /\ <<fail.at - 1, "write error">> \in errs

\* C7: if the fork() issued by layer k (the one that would create layer
\* k+1) fails, the printed values are, from then on, exactly the first k
\* primes in ascending order.
C7_PartialOutputSurvives ==
  fail.kind = "fork" => out = SubSeq(PrimesUpTo(N), 1, fail.at)

C7_Witness ==
  fail.kind = "fork" /\ fail.at = 3 /\ AllExited /\ out = <<2, 3, 5>>

\* C8: with an empty candidate range (N < 2) the first layer never reads a
\* value, nothing is printed, no further pipe or layer is created, and after
\* a failure-free run the first layer has closed its input and exited with
\* status 0 and main has exited with status 0.
C8_EmptyRange ==
  N < 2 =>
     /\ p[1] = 0 /\ out = <<>> /\ ~made[2] /\ pstate[2] = "unused"
     /\ (DriverExited /\ ~Failed) =>
           status[1] = 0 /\ status[0] = 0 /\ 1 \notin rd[1]

C8_Witness ==
  N = 1 /\ DriverExited /\ ~Failed /\ pstate[1] = "reaped" /\ status[0] = 0

\* The values of the calls of one kind in a history, in order.
Vals(s, kind) ==
  LET f == SelectSeq(s, LAMBDA e : e[1] = kind)
  IN  [k \in 1..Len(f) |-> f[k][2]]
\* The values process i has read from its input pipe, and the values it has
\* written to its output pipe (process 0: the feeder).
Reads(i) == Vals(trace[i], "read")
Writes(i) == Vals(trace[i], "write")
Range(s) == {s[k] : k \in 1..Len(s)}

\* C12: in every reachable state, failure runs included: the designated
\* prime of a layer is the first value it read and is a prime number; the
\* designated primes increase strictly along the chain; and every value
\* ever written to the input pipe of a layer is not divisible by the
\* designated prime of any layer above it.
C12_ChainInvariant ==
  \A i \in Stages :
    /\ Reads(i) # <<>> => p[i] = Reads(i)[1]
    /\ p[i] # 0 => IsPrime(p[i])
    /\ (i > 1 /\ p[i] # 0) => (p[i - 1] # 0 /\ p[i - 1] < p[i])
    /\ \A v \in Range(Writes(i - 1)) :
          \A k \in 1..(i - 1) : p[k] # 0 /\ v % p[k] # 0

C12_Witness ==
  /\ p[1] = 2 /\ p[2] = 3 /\ p[3] = 5 /\ p[4] = 7
  /\ Writes(1) = <<3, 5, 7, 9>> /\ Writes(2) = <<5, 7>> /\ Writes(3) = <<7>>

\* The values layer i read after its designated prime that are not
\* multiples of it, in the order read.
Survivors(i) == SelectSeq(Tail(Reads(i)), LAMBDA v : v % p[i] # 0)

\* C13: in a failure-free run the values a layer has written to its output
\* pipe are always an initial part of the non-multiples of its prime among
\* the values it read after the prime, in the order read, at most the one
\* value it is about to forward behind; once the layer has exited the two
\* sequences are equal: nothing is lost, duplicated or reordered, and the
\* first non-multiple, read before the output pipe exists, is the first
\* value written.
C13_ForwardsSurvivorsInOrder ==
  ~Failed =>
    \A i \in Stages : p[i] # 0 =>
      /\ IsPrefix(Writes(i), Survivors(i))
      /\ Len(Survivors(i)) <= Len(Writes(i)) + 1
      /\ pstate[i] # "running" => Writes(i) = Survivors(i)
      /\ Writes(i) # <<>> => Writes(i)[1] = Survivors(i)[1]

C13_Witness ==
  /\ ~Failed /\ AllExited
  /\ Reads(1) = <<2, 3, 4, 5, 6, 7, 8, 9, 10>> /\ Writes(1) = <<3, 5, 7, 9>>
  /\ Reads(2) = <<3, 5, 7, 9>> /\ Writes(2) = <<5, 7>>

Exited(i) == pstate[i] \in {"zombie", "reaped"}

\* C14: a process that has spawned a successor does not exit before that
\* successor has exited, on every path; the exits are therefore ordered
\* from the last layer up to the first layer, and main, the driver, exits
\* last.
C14_ExitsDownstreamFirst ==
  \A i \in Procs :
    (i < MaxProc /\ Exited(i) /\ pstate[i + 1] # "unused") => Exited(i + 1)

\* The call e occurs in the history s; the number of its occurrences; the
\* call a occurs before the call b.
Has(s, e) == \E k \in 1..Len(s) : s[k] = e
Count(s, e) == Cardinality({k \in 1..Len(s) : s[k] = e})
Before(s, a, b) == \E k, l \in 1..Len(s) : k < l /\ s[k] = a /\ s[l] = b
\* Process i is blocked in, or about to issue, a read of its input pipe.
Reading(i) == pstate[i] = "running"
              /\ pc[i] \in {"read_first", "preread", "loop_read"}

\* The feeder closes its write end at most once, with every value of the
\* range written before; a layer reads end-of-stream only when no write end
\* of its input pipe is open and it has read every value written to the
\* pipe; a layer closes the write end of its output pipe at most once, and
\* exactly once by the time it exits.
CascadeSafe ==
  /\ Count(trace[0], <<"closew", 1>>) <= 1
  /\ Has(trace[0], <<"closew", 1>>) =>
        Writes(0) = [k \in 1..(N - 1) |-> k + 1]
        /\ trace[0][Len(Writes(0)) + 4] = <<"closew", 1>>
  /\ \A i \in Stages :
        /\ Has(trace[i], <<"eof", i>>) =>
              wr[i] = {} /\ buf[i] = <<>> /\ Reads(i) = Writes(i - 1)
        /\ Count(trace[i], <<"closew", i + 1>>) <= 1
        /\ (Has(trace[i], <<"pipe", i + 1>>) /\ Exited(i)) =>
              Count(trace[i], <<"closew", i + 1>>) = 1

\* The cascade has completed: every layer whose input returned
\* end-of-stream has closed the write end of the output pipe it created,
\* and no layer is left reading a pipe that has no open write end.
CascadeDone ==
  \A i \in Stages :
    /\ (Has(trace[i], <<"eof", i>>) /\ Has(trace[i], <<"pipe", i + 1>>))
         => Has(trace[i], <<"closew", i + 1>>)
    /\ ~(Reading(i) /\ wr[i] = {})

\* Under weak fairness the cascade eventually has completed, for good.
CascadeLive == <>[]CascadeDone

\* C15 (as stated): the end-of-stream cascade, where a layer closes the
\* write end of its output pipe only after its own input has returned
\* end-of-stream.
C15_ClosesOnlyAfterEof ==
  /\ [](CascadeSafe)
  /\ [](\A i \in Stages : Has(trace[i], <<"closew", i + 1>>) =>
           Before(trace[i], <<"eof", i>>, <<"closew", i + 1>>))
  /\ CascadeLive

\* C15 (amended): the end-of-stream cascade, where a layer closes the write
\* end of its output pipe only after its own input has returned
\* end-of-stream, or after its write to that pipe failed, or after its
\* fork() failed; in a failure-free run only after end-of-stream.
C15_EofCascade ==
  /\ [](CascadeSafe)
  /\ [](\A i \in Stages : Has(trace[i], <<"closew", i + 1>>) =>
           \/ Before(trace[i], <<"eof", i>>, <<"closew", i + 1>>)
           \/ /\ Failed
              /\ \/ \E v \in 2..MaxN :
                      Before(trace[i], <<"wfail", v>>, <<"closew", i + 1>>)
                 \/ fail = [kind |-> "fork", at |-> i])
  /\ CascadeLive

C15_Witness ==
  /\ ~Failed /\ AllExited /\ N = 10
  /\ \A i \in 1..3 : Before(trace[i], <<"eof", i>>, <<"closew", i + 1>>)
  /\ Has(trace[4], <<"eof", 4>>) /\ Reads(4) = <<7>>

\* C16: in every reachable state in which a layer is executing a read on
\* its input pipe, the write end of that pipe is held by no process other
\* than the layer's direct upstream (its parent layer, or main for the
\* first layer), and neither the reading layer nor any layer below it
\* holds the write end of that pipe or of any pipe above it.
C16_NoExtraWriteEnd ==
  \A i \in Stages : Reading(i) =>
    /\ wr[i] \subseteq {i - 1}
    /\ \A j \in 1..i : \A k \in i..MaxProc : k \notin wr[j]

C16_Witness ==
  /\ Reading(3) /\ pc[3] = "loop_read" /\ wr[3] = {2}
  /\ Reading(4) /\ wr[4] = {3} /\ Reading(2) /\ wr[2] = {1}

\* C17: in every reachable state each layer has created at most one output
\* pipe and has forked at most once (it has at most one child), the fork
\* after the pipe; it created the pipe only after it had read a value that
\* is not a multiple of its designated prime; and a layer that has read no
\* such value has no output pipe and no child.
C17_LazyGrowth ==
  \A i \in 1..(MaxProc - 1) :
    /\ Count(trace[i], <<"pipe", i + 1>>) <= 1
    /\ Count(trace[i], <<"fork", i + 1>>) <= 1
    /\ \A j \in Pipes : j # i + 1 =>
          ~Has(trace[i], <<"pipe", j>>) /\ ~Has(trace[i], <<"fork", j>>)
    /\ Has(trace[i], <<"fork", i + 1>>) =>
          Before(trace[i], <<"pipe", i + 1>>, <<"fork", i + 1>>)
    /\ Has(trace[i], <<"pipe", i + 1>>) =>
          /\ Survivors(i) # <<>>
          /\ Before(trace[i], <<"read", Survivors(i)[1]>>, <<"pipe", i + 1>>)
    /\ made[i + 1] <=> Has(trace[i], <<"pipe", i + 1>>)
    /\ pstate[i + 1] # "unused" <=> Has(trace[i], <<"fork", i + 1>>)
    /\ (p[i] = 0 \/ Survivors(i) = <<>>) =>
          ~made[i + 1] /\ pstate[i + 1] = "unused"

C17_Witness ==
  /\ N = 10 /\ ~Failed /\ AllExited
  /\ \A i \in 1..3 : Count(trace[i], <<"fork", i + 1>>) = 1
  /\ p[4] = 7 /\ Survivors(4) = <<>> /\ ~made[5] /\ pstate[5] = "unused"

\* What follows the k-th call in the history of process i.
After(i, k) == SubSeq(trace[i], k + 1, Len(trace[i]))

\* C18: whenever a write of a layer to its output pipe has failed, the
\* first write after the fork included, the failure is logged and the layer
\* issues no further read and no further write: the calls it completes
\* after the failed write are close(leftfd), close(next[1]) and wait(0), in
\* this order.
C18_FailedWriteAborts ==
  \A i \in Stages : \A k \in 1..Len(trace[i]) :
    trace[i][k][1] = "wfail" =>
      /\ <<i, "write error">> \in errs
      /\ IsPrefix(After(i, k),
                  <<<<"closer", i>>, <<"closew", i + 1>>, <<"wait", 0>>>>)

\* The candidate range 2, 3, ..., N.
Range2N == [k \in 1..(N - 1) |-> k + 1]

\* C19: at any time the values the feeder has written are an initial part
\* of 2, 3, ..., N (ascending, each once); a failed write is its last call;
\* main holds no write end of the first pipe once it waits for its child
\* (it has written the whole range and closed p[1]) and once it has exited,
\* on every exit path, so that the only process that can still hold a
\* write end of the first pipe is the first layer itself, until it closes
\* its copy.
C19_FeederPrefixAndClose ==
  /\ IsPrefix(Writes(0), Range2N)
  /\ \A k \in 1..Len(trace[0]) :
        trace[0][k][1] = "wfail" =>
          k = Len(trace[0]) /\ trace[0][k][2] = Len(Writes(0)) + 2
  /\ At(0, "m_wait") => (Writes(0) = Range2N /\ 0 \notin wr[1])
  /\ DriverExited => (0 \notin wr[1] /\ wr[1] \subseteq {1})
  /\ (DriverExited /\ status[0] = 0) => Writes(0) = Range2N

C19_Witness ==
  /\ N = 5 /\ Writes(0) = <<2, 3, 4>> /\ Has(trace[0], <<"wfail", 5>>)
  /\ DriverExited /\ status[0] = 1 /\ wr[1] = {}

\* The sieve processes created so far (each runs one call of sieve()).
StagesCreated == {i \in Stages : pstate[i] # "unused"}
Completed == N >= 2 /\ ~Failed /\ DriverExited

\* C20 (as stated): at completion of a failure-free run with N >= 2 the
\* number of sieve processes created is one more than the number of primes
\* printed.
C20_OneMoreStageThanPrimes ==
  Completed => Cardinality(StagesCreated) = Len(out) + 1

\* C20 (amended): at completion of a failure-free run with N >= 2 the
\* number of sieve processes created equals the number of primes printed,
\* every one of them has a designated prime, and the layer of the largest
\* prime has no successor; with main, the feeder, the chain has one process
\* more than there are primes.
C20_OneStagePerPrime ==
  Completed =>
    /\ Cardinality(StagesCreated) = Len(out)
    /\ Len(out) = Len(PrimesUpTo(N))
    /\ StagesCreated = 1..Len(out)
    /\ \A i \in StagesCreated : p[i] = out[i]
    /\ ~made[Len(out) + 1]
    /\ Cardinality({i \in Procs : pstate[i] # "unused"}) = Len(out) + 1

C20_Witness ==
  /\ N = 10 /\ Completed /\ out = <<2, 3, 5, 7>>
  /\ StagesCreated = {1, 2, 3, 4} /\ Has(trace[4], <<"eof", 4>>)

(***************************************************************************)
(* Properties of pingpong                                                  *)
(***************************************************************************)
\* C9: in every interleaving the pipe operations succeed in the order
\* parent write, child read, child write, parent read; the line "received
\* ping" of the child is printed before the line "received pong" of the
\* parent; and the byte the parent has read is the byte 'x' it wrote.
C9_PingBeforePong ==
  /\ IsPrefix(ppLog, <<"parent write", "child read", "child write",
                       "parent read">>)
  /\ IsPrefix(ppOut, <<<<ppPid["child"], "received ping">>,
                       <<ppPid["parent"], "received pong">>>>)
  /\ Len(ppLog) = 4 => byte["parent"] = "x"

C9_Witness ==
  /\ Len(ppLog) = 4 /\ Len(ppOut) = 2
  /\ ppState["parent"] = "zombie" /\ ppStatus["parent"] = 0

PpExited(w) == ppState[w] \in {"zombie", "reaped"}

\* C22: in every execution the parent has not exited while the child is
\* still running, and when nothing failed it has exited only after it
\* reaped the child; under weak fairness of both processes, unless pipe()
\* or fork() failed (no read or write can fail), both processes eventually
\* have exited with status 0.
C22_ParentExitsLast ==
  /\ [](PpExited("parent") =>
          /\ ppState["child"] # "running"
          /\ ppErrs = {} => ppState["child"] = "reaped")
  /\ [](ppErrs \subseteq {"pipe() failed", "fork() failed"})
  /\ <>(\/ ppErrs # {}
        \/ /\ PpExited("parent") /\ PpExited("child")
           /\ ppStatus["parent"] = 0 /\ ppStatus["child"] = 0)

C22_Witness ==
  /\ ppState["parent"] = "zombie" /\ ppState["child"] = "reaped"
  /\ ppStatus = [w \in Who |-> 0] /\ ppErrs = {}

(***************************************************************************)
(* Properties of xargs                                                     *)
(***************************************************************************)
\* C10: without -n, when xargs has exited with status 0 and nothing failed,
\* and the input held at least one token and fewer tokens than the MAXARG
\* limit leaves room for, the command was executed exactly once, with the
\* fixed arguments followed by all the tokens in input order, whichever
\* delimiter closed each token.
C10_AllTokensInOneExec ==
  (/\ xPc = "done" /\ xStatus = 0 /\ xErrs = {} /\ ~per_token
   /\ Len(xToks) >= 1 /\ fcnt + Len(xToks) + 1 < MAXARG)
  => xExecs = <<[fixed |-> fixed, words |-> xToks]>>

\* The argument vectors of one execution per token: the fixed arguments
\* followed by the k-th token.
OnePerToken(toks) ==
  [k \in 1..Len(toks) |-> [fixed |-> fixed, words |-> <<toks[k]>>]]

\* C11: with -n 1 the executions issued so far are, in order, one per token
\* closed so far, each with the fixed arguments followed by exactly that
\* token; main reads further input only when every token closed so far has
\* been executed and its child has been waited for (no child is alive); and
\* when xargs has exited with status 0 the whole input was read and the
\* number of executions equals the number of tokens.
C11_OneExecPerToken ==
  per_token =>
    /\ IsPrefix(xExecs, OnePerToken(xToks))
    /\ xPc \in {"read", "eof", "clear", "final"} =>
          xChild = "none" /\ Len(xExecs) = Len(xToks)
    /\ xChild # "none" => xPc = "wait"
    /\ (xPc = "done" /\ xStatus = 0) =>
          xIn = <<>> /\ xChild = "none" /\ xExecs = OnePerToken(xToks)

C11_Witness ==
  /\ per_token /\ xPc = "done" /\ xStatus = 0 /\ fcnt = 1
  /\ xToks = <<<<"a">>, <<"n">>>> /\ Len(xExecs) = 2

\* C21: without -n, every argument vector built for exec (the fixed
\* arguments, the tokens and the terminating 0) fits in the MAXARG entries
\* of args[], nothing is written past the array, and no execution is issued
\* with an empty batch of tokens, for every number of fixed arguments and
\* every input.
C21_BatchFitsAndNonEmpty ==
  /\ ~xUB
  /\ xPc \in {"fork", "wait"} => ArgsEntries(xCall) <= MAXARG
  /\ \A k \in 1..Len(xExecs) :
        /\ ArgsEntries(xExecs[k]) <= MAXARG
        /\ ~per_token => xExecs[k].words # <<>>
  /\ (~per_token /\ xPc \in {"fork", "wait"}) => xCall.words # <<>>

====
